---- MODULE Spec2Model ----
(***************************************************************************)
(* Model of simple_master.py: a HART master that identifies one field      *)
(* device over a serial link (command 0), reads its status (command 1) and *)
(* then polls its dynamic variables (command 3) forever, publishing the    *)
(* two readings to the MQTT topics `press` and `temp`.                     *)
(*                                                                         *)
(* Python values are tagged records [type, v]; an uncaught exception is    *)
(* the name of its class in the variable exc.  A float is the decimal      *)
(* <<mantissa, exponent>> (mantissa * 10^exponent) in normal form, so the  *)
(* scaling by 1_000_000 is exact.                                          *)
(***************************************************************************)
EXTENDS Integers, Sequences, FiniteSets, TLC

(* ---------------------------------------------------------------- bounds *)
\* longest batch of decoded messages one drain of the unpacker yields
MaxBatch == 2
\* number of iterations of the polling loop that are explored
MaxPolls == 3
\* longest enumerated data payload of pack_short_frame
MaxDataLen == 2
\* longest enumerated preamble of pack_short_frame besides the default
MaxPreamble == 2

(* ------------------------------------------------------- program constants *)
DefaultPreambleLen == 20
StartCharacter == 2
MasterBit == 128
PreambleByte == 255
ScaleSecondary == 1000000
DeviceIdLen == 3
MQTT_ERR_SUCCESS == 0
\* largest value of one byte, and of the byte count field
ByteMax == 255

(* ---------------------------------------------------------- Python values *)
PyNone == [type |-> "NoneType", v |-> <<>>]
PyInt(n) == [type |-> "int", v |-> <<n>>]
PyFloat(x) == [type |-> "float", v |-> <<x>>]
PyBytes(s) == [type |-> "bytes", v |-> s]
PyBool(b) == [type |-> "bool", v |-> <<b>>]
PyRaise(e) == [type |-> "raise", v |-> <<e>>]
IsNone(x) == x.type = "NoneType"
Val(x) == x.v[1]

BoundedSeq(S, n) == UNION {[1..k -> S] : k \in 0..n}

RECURSIVE BitXor(_, _)
BitXor(a, b) ==
  IF a = 0 THEN b
  ELSE IF b = 0 THEN a
  ELSE ((a + b) % 2) + 2 * BitXor(a \div 2, b \div 2)

RECURSIVE BitOr(_, _)
BitOr(a, b) ==
  IF a = 0 THEN b
  ELSE IF b = 0 THEN a
  ELSE (IF a % 2 = 1 \/ b % 2 = 1 THEN 1 ELSE 0) + 2 * BitOr(a \div 2, b \div 2)

RECURSIVE Pow256(_)
Pow256(n) == IF n = 0 THEN 1 ELSE 256 * Pow256(n - 1)

\* int.from_bytes(b, "big")
RECURSIVE from_bytes(_)
from_bytes(b) ==
  IF b = <<>> THEN 0
  ELSE 256 * from_bytes(SubSeq(b, 1, Len(b) - 1)) + b[Len(b)]

\* n.to_bytes(length, "big"): the big-endian digits, OverflowError when n does not fit
to_bytes(n, length) ==
  IF n < 0 \/ n >= Pow256(length)
  THEN PyRaise("OverflowError")
  ELSE PyBytes([i \in 1..length |-> (n \div Pow256(length - i)) % 256])

\* hart_protocol.tools.calculate_checksum: the longitudinal parity (XOR) of the bytes.
\* XOR is associative, so the bytes are folded by halves to keep the evaluation shallow.
RECURSIVE calculate_checksum(_)
calculate_checksum(b) ==
  IF b = <<>> THEN 0
  ELSE IF Len(b) = 1 THEN BitXor(0, b[1])
  ELSE LET h == Len(b) \div 2
       IN BitXor(calculate_checksum(SubSeq(b, 1, h)),
                 calculate_checksum(SubSeq(b, h + 1, Len(b))))

\* command[preamble_len:]
SliceFrom(command, n) == SubSeq(command, n + 1, Len(command))

(* ------------------------------------------------------- pack_short_frame *)
\* the frame with the checksum taken over the whole command, preamble included
pack_short_frame_ChecksumAll(address, command_id, preamble_len, data) ==
  LET addr == IF address.type = "bytes" THEN from_bytes(address.v) ELSE Val(address)
      cmd == IF command_id.type = "int" THEN to_bytes(Val(command_id), 1) ELSE command_id
      abyte == to_bytes(BitOr(MasterBit, addr), 1)
      count == IF IsNone(data) THEN PyBytes(<<0>>) ELSE to_bytes(Len(data.v), 1)
      payload == IF IsNone(data) THEN <<>> ELSE data.v
  IN IF abyte.type = "raise" THEN abyte
     ELSE IF cmd.type = "raise" THEN cmd
     ELSE IF count.type = "raise" THEN count
     ELSE LET command == [i \in 1..preamble_len |-> PreambleByte] \o <<StartCharacter>>
                           \o abyte.v \o cmd.v \o count.v \o payload
          IN PyBytes(command \o <<calculate_checksum(command)>>)

pack_short_frame(address, command_id, preamble_len, data) ==
  LET addr == IF address.type = "bytes" THEN from_bytes(address.v) ELSE Val(address)
      cmd == IF command_id.type = "int" THEN to_bytes(Val(command_id), 1) ELSE command_id
      abyte == to_bytes(BitOr(MasterBit, addr), 1)
      count == IF IsNone(data) THEN PyBytes(<<0>>) ELSE to_bytes(Len(data.v), 1)
      payload == IF IsNone(data) THEN <<>> ELSE data.v
  IN IF abyte.type = "raise" THEN abyte
     ELSE IF cmd.type = "raise" THEN cmd
     ELSE IF count.type = "raise" THEN count
     ELSE LET command == [i \in 1..preamble_len |-> PreambleByte] \o <<StartCharacter>>
                           \o abyte.v \o cmd.v \o count.v \o payload
          IN PyBytes(command \o <<calculate_checksum(SliceFrom(command, preamble_len))>>)

(* ------------------------------------------------------------ input sets *)
\* decoded responses to command 0 (identity), command 1 (status) and command 3
Msgs0 ==
  { [manufacturer_id |-> 1, manufacturer_device_type |-> 2, device_id |-> 3],
    [manufacturer_id |-> 38, manufacturer_device_type |-> 6, device_id |-> 66051] }
Msgs1 == { [primary_variable |-> <<15, -1>>] }
\* primary 1.5 with secondary 0.002, and primary 7.0 with secondary -0.03
Msgs3 ==
  { [primary_variable |-> <<15, -1>>, secondary_variable |-> <<2, -3>>],
    [primary_variable |-> <<7, 0>>, secondary_variable |-> <<-3, -2>>] }
\* what one iteration over the unpacker can yield after the guard time
Batches(M) == BoundedSeq(M, MaxBatch)
\* status of paho's publish: success, or a non-zero code such as MQTT_ERR_NO_CONN
PublishStatuses == {MQTT_ERR_SUCCESS, 4}

(* ----------------------------------------------------------------- state *)
VARIABLES
  pc,            \* position of run(), or the outcome of the process
  m,             \* the SimpleMaster: identity fields and long address
  result,        \* run's local `result`
  data,          \* run's local `data`, the reading of the last command 3
  drain,         \* the decoded messages the last drain of the unpacker yielded
  client,        \* "none" before Client(...) has returned, then "connected"
  loop_running,  \* paho's background network loop
  outbox,        \* topic, payload and status of the last client publish
  attempts,      \* number of calls of paho's publish
  stdout,        \* kind of the last line Client.publish printed
  trace,         \* commands run, scope entry and publishes, in order
  written,       \* what was written to the serial port, in order
  returned,      \* (drained batch, reading) of every run_command_3 that returned
  polls,         \* number of run_command_3 calls
  exc,           \* class of the exception that ended the process, or ""
  args,          \* arguments of the last pack_short_frame call
  frame          \* what that call returned

vars == <<pc, m, result, data, drain, client, loop_running, outbox, attempts, stdout,
          trace, written, returned, polls, exc, args, frame>>

(* ---------------------------------------------------------- SimpleMaster *)
SimpleMaster__init__ ==
  [manufacturer_id |-> PyNone, manufacturer_device_type |-> PyNone,
   device_id |-> PyNone, long_address |-> PyNone]

\* hart_protocol.tools.calculate_long_address: manufacturer id, device type and the
\* three bytes of the device id, as five bytes
calculate_long_address(manufacturer_id, manufacturer_device_type, device_id) ==
  PyBytes(<<Val(manufacturer_id) % 256, Val(manufacturer_device_type) % 256>> \o device_id.v)

\* the loop of run_command_0 over the decoded messages
RECURSIVE Drain0(_, _)
Drain0(self, msgs) ==
  IF msgs = <<>> THEN self
  ELSE Drain0([self EXCEPT !.manufacturer_id = PyInt(Head(msgs).manufacturer_id),
                           !.manufacturer_device_type = PyInt(Head(msgs).manufacturer_device_type),
                           !.device_id = to_bytes(Head(msgs).device_id, DeviceIdLen)],
              Tail(msgs))

\* run_command_0 without the check of the identity fields
run_command_0_NoCheck(self, msgs) ==
  LET s == Drain0(self, msgs)
  IN [self |-> s, ret |-> TRUE]

\* run_command_0 that never stores the long address
run_command_0_NoAddress(self, msgs) ==
  LET s == Drain0(self, msgs)
  IN IF IsNone(s.manufacturer_id) \/ IsNone(s.manufacturer_device_type) \/ IsNone(s.device_id)
     THEN [self |-> s, ret |-> FALSE]
     ELSE [self |-> s, ret |-> TRUE]

run_command_0(self, msgs) ==
  LET s == Drain0(self, msgs)
  IN IF IsNone(s.manufacturer_id) \/ IsNone(s.manufacturer_device_type) \/ IsNone(s.device_id)
     THEN [self |-> s, ret |-> FALSE]
     ELSE [self |-> [s EXCEPT !.long_address =
                       calculate_long_address(s.manufacturer_id, s.manufacturer_device_type,
                                              s.device_id)],
           ret |-> TRUE]

\* run_command_1 only logs the messages
run_command_1(self, msgs) == self

NoReading ==
  [primary |-> PyNone, primary_units |-> PyNone,
   secondary |-> PyNone, secondary_units |-> PyNone]

\* the normal form of mantissa * 10^exponent: no trailing zero in the mantissa
RECURSIVE Decimal(_, _)
Decimal(mantissa, exponent) ==
  IF mantissa = 0 THEN <<0, 0>>
  ELSE IF mantissa % 10 = 0 THEN Decimal(mantissa \div 10, exponent + 1)
  ELSE <<mantissa, exponent>>

\* a * n in Python for an int n: TypeError when a is None
PyMul(a, n) ==
  IF IsNone(a) THEN PyRaise("TypeError")
  ELSE PyFloat(Decimal(Val(a)[1] * n, Val(a)[2]))

\* the loop of run_command_3 over the decoded messages
RECURSIVE Drain3(_, _)
Drain3(d, msgs) ==
  IF msgs = <<>> THEN d
  ELSE Drain3([d EXCEPT !.primary = PyFloat(Head(msgs).primary_variable),
                        !.secondary = PyFloat(Head(msgs).secondary_variable)],
              Tail(msgs))

\* the reading of a drain that started from d
Reading(d, msgs) ==
  LET e == Drain3(d, msgs)
      scaled == PyMul(e.secondary, ScaleSecondary)
  IN IF scaled.type = "raise" THEN [exc |-> Val(scaled), ret |-> e]
     ELSE [exc |-> "", ret |-> [e EXCEPT !.secondary = scaled]]

\* run_command_3 keeping the first message of the batch
run_command_3_FirstWins(self, msgs) ==
  Reading(NoReading, IF msgs = <<>> THEN msgs ELSE <<Head(msgs)>>)

\* run_command_3 whose dict is shared by all calls
run_command_3_SharedData(self, msgs) == Reading(data, msgs)

run_command_3(self, msgs) == Reading(NoReading, msgs)

LongFrame(self, command_id) ==
  [packer |-> "pack_command", address |-> self.long_address, command_id |-> command_id]

(* ------------------------------------------------------------------ Init *)
Init ==
  /\ pc = "run_command_0"
  /\ m = SimpleMaster__init__
  /\ result = PyNone
  /\ data = NoReading
  /\ drain = <<>>
  /\ client = "none"
  /\ loop_running = FALSE
  /\ outbox = [topic |-> "", payload |-> PyNone, status |-> 0]
  /\ attempts = 0
  /\ stdout = ""
  /\ trace = <<>>
  /\ written = <<>>
  /\ returned = {}
  /\ polls = 0
  /\ exc = ""
  /\ args = <<>>
  /\ frame = PyNone

(* ------------------------------------------------------------ Client *)
\* Client.__init__: connect() raises when the broker cannot be reached
Client__init__ ==
  /\ pc = "Client"
  /\ \E connected \in BOOLEAN :
       IF connected
       THEN /\ client' = "connected"
            /\ pc' = "__enter__"
            /\ exc' = exc
       ELSE /\ client' = client
            /\ pc' = "raised"
            /\ exc' = "ConnectionRefusedError"
  /\ UNCHANGED <<m, result, data, drain, loop_running, outbox, attempts, stdout, trace,
                 written, returned, polls, args, frame>>

Client__enter__ ==
  /\ pc = "__enter__"
  /\ loop_running' = TRUE
  /\ trace' = Append(trace, "enter")
  /\ pc' = "run_command_3"
  /\ UNCHANGED <<m, result, data, drain, client, outbox, attempts, stdout, written,
                 returned, polls, exc, args, frame>>

\* __exit__ that leaves the network loop running
Client__exit__NoStop ==
  /\ pc = "__exit__"
  /\ pc' = "raised"
  /\ UNCHANGED <<m, result, data, drain, client, loop_running, outbox, attempts, stdout,
                 trace, written, returned, polls, exc, args, frame>>

\* __exit__ returns None, so the exception goes on to end the process
Client__exit__ ==
  /\ pc = "__exit__"
  /\ loop_running' = FALSE
  /\ pc' = "raised"
  /\ UNCHANGED <<m, result, data, drain, client, outbox, attempts, stdout, trace,
                 written, returned, polls, exc, args, frame>>

\* publish that raises when the status is not 0
publish_Raise(topic, payload, next) ==
  \E status \in PublishStatuses, raises \in BOOLEAN :
    /\ attempts' = attempts + 1
    /\ trace' = Append(trace, topic)
    /\ IF raises \/ status # 0
       THEN /\ outbox' = [topic |-> topic, payload |-> payload, status |-> status]
            /\ exc' = "ValueError"
            /\ pc' = "__exit__"
            /\ stdout' = stdout
       ELSE /\ outbox' = [topic |-> topic, payload |-> payload, status |-> status]
            /\ stdout' = "Send"
            /\ exc' = exc
            /\ pc' = next

\* Client.publish(topic, data) called from run, which goes on at `next`: the call of
\* paho's publish returns a status or raises
publish(topic, payload, next) ==
  \E status \in PublishStatuses, raises \in BOOLEAN :
    /\ attempts' = attempts + 1
    /\ trace' = Append(trace, topic)
    /\ IF raises
       THEN /\ outbox' = [topic |-> topic, payload |-> payload, status |-> 0]
            /\ exc' = "ValueError"
            /\ pc' = "__exit__"
            /\ stdout' = stdout
       ELSE /\ outbox' = [topic |-> topic, payload |-> payload, status |-> status]
            /\ stdout' = IF status = 0 THEN "Send" ELSE "Failed to send"
            /\ exc' = exc
            /\ pc' = next

(* ------------------------------------------------------------------- run *)
\* result = m.run_command_0()
Call_run_command_0 ==
  /\ pc = "run_command_0"
  /\ args' = <<PyInt(0), PyInt(0), DefaultPreambleLen, PyNone>>
  /\ frame' = pack_short_frame(PyInt(0), PyInt(0), DefaultPreambleLen, PyNone)
  /\ written' = Append(written, [packer |-> "pack_short_frame", address |-> PyInt(0),
                                 command_id |-> 0])
  /\ trace' = Append(trace, "command 0")
  /\ \E write_ok \in BOOLEAN :
       IF write_ok
       THEN \E msgs \in Batches(Msgs0) :
              LET r == run_command_0(m, msgs)
              IN /\ drain' = msgs
                 /\ m' = r.self
                 /\ result' = PyBool(r.ret)
                 /\ pc' = "if not result"
                 /\ exc' = exc
       ELSE /\ exc' = "SerialException"
            /\ pc' = "raised"
            /\ UNCHANGED <<m, result, drain>>
  /\ UNCHANGED <<data, client, loop_running, outbox, attempts, stdout, returned, polls>>

\* the check of result that goes on although command 0 failed
Check_result_NoExit ==
  /\ pc = "if not result"
  /\ pc' = "run_command_1"
  /\ UNCHANGED <<m, result, data, drain, client, loop_running, outbox, attempts, stdout,
                 trace, written, returned, polls, exc, args, frame>>

\* if not result: exit()
Check_result ==
  /\ pc = "if not result"
  /\ pc' = IF Val(result) THEN "run_command_1" ELSE "exited"
  /\ UNCHANGED <<m, result, data, drain, client, loop_running, outbox, attempts, stdout,
                 trace, written, returned, polls, exc, args, frame>>

\* m.run_command_1()
Call_run_command_1 ==
  /\ pc = "run_command_1"
  /\ written' = Append(written, LongFrame(m, 1))
  /\ trace' = Append(trace, "command 1")
  /\ \E write_ok \in BOOLEAN :
       IF write_ok
       THEN \E msgs \in Batches(Msgs1) :
              /\ drain' = msgs
              /\ m' = run_command_1(m, msgs)
              /\ pc' = "Client"
              /\ exc' = exc
       ELSE /\ exc' = "SerialException"
            /\ pc' = "raised"
            /\ UNCHANGED <<m, drain>>
  /\ UNCHANGED <<result, data, client, loop_running, outbox, attempts, stdout, returned,
                 polls, args, frame>>

\* data = m.run_command_3()
Call_run_command_3 ==
  /\ pc = "run_command_3"
  /\ polls < MaxPolls
  /\ polls' = polls + 1
  /\ written' = Append(written, LongFrame(m, 3))
  /\ trace' = Append(trace, "command 3")
  /\ \E write_ok \in BOOLEAN :
       IF write_ok
       THEN \E msgs \in Batches(Msgs3) :
              LET r == run_command_3(m, msgs)
              IN /\ drain' = msgs
                 /\ IF r.exc = ""
                    THEN /\ data' = r.ret
                         /\ returned' = returned \cup {<<msgs, r.ret>>}
                         /\ pc' = "publish press"
                         /\ exc' = exc
                    ELSE /\ exc' = r.exc
                         /\ pc' = "__exit__"
                         /\ UNCHANGED <<data, returned>>
       ELSE /\ exc' = "SerialException"
            /\ pc' = "__exit__"
            /\ UNCHANGED <<data, returned, drain>>
  /\ UNCHANGED <<m, result, client, loop_running, outbox, attempts, stdout, args, frame>>

\* the press publish after which the loop goes straight to the next command 3
Publish_press_SkipTemp ==
  /\ pc = "publish press"
  /\ publish("press", data.primary, "run_command_3")
  /\ UNCHANGED <<m, result, data, drain, client, loop_running, written, returned, polls,
                 args, frame>>

\* cl.publish('press', data['primary'])
Publish_press ==
  /\ pc = "publish press"
  /\ publish("press", data.primary, "publish temp")
  /\ UNCHANGED <<m, result, data, drain, client, loop_running, written, returned, polls,
                 args, frame>>

\* cl.publish('temp', data['secondary'])
Publish_temp ==
  /\ pc = "publish temp"
  /\ publish("temp", data.secondary, "run_command_3")
  /\ UNCHANGED <<m, result, data, drain, client, loop_running, written, returned, polls,
                 args, frame>>

Next ==
  \/ Call_run_command_0
  \/ Check_result
  \/ Call_run_command_1
  \/ Client__init__
  \/ Client__enter__
  \/ Call_run_command_3
  \/ Publish_press
  \/ Publish_temp
  \/ Client__exit__

Spec == Init /\ [][Next]_vars

(* ------------------------------------------ pack_short_frame on its inputs *)
SampleBytes == {0, 130, 255}
PackAddresses ==
  {PyInt(a) : a \in {0, 1, 21, 42, 63, 300}}
    \cup {PyBytes(<<0>>), PyBytes(<<63>>), PyBytes(<<0, 5>>)}
PackCommands == {PyInt(c) : c \in {0, 3, 255}} \cup {PyBytes(<<c>>) : c \in {0, 3, 255}}
PackPreambles == (0..MaxPreamble) \cup {DefaultPreambleLen}
PackData ==
  {PyNone} \cup {PyBytes(d) : d \in BoundedSeq(SampleBytes, MaxDataLen)}
    \cup {PyBytes([i \in 1..ByteMax |-> i]), PyBytes([i \in 1..(ByteMax + 1) |-> 0])}

InitPack ==
  /\ pc = "pack_short_frame"
  /\ args \in PackAddresses \X PackCommands \X PackPreambles \X PackData
  /\ frame = PyNone
  /\ m = SimpleMaster__init__
  /\ result = PyNone
  /\ data = NoReading
  /\ drain = <<>>
  /\ client = "none"
  /\ loop_running = FALSE
  /\ outbox = [topic |-> "", payload |-> PyNone, status |-> 0]
  /\ attempts = 0
  /\ stdout = ""
  /\ trace = <<>>
  /\ written = <<>>
  /\ returned = {}
  /\ polls = 0
  /\ exc = ""

Call_pack_short_frame ==
  /\ pc = "pack_short_frame"
  /\ frame' = pack_short_frame(args[1], args[2], args[3], args[4])
  /\ pc' = "packed"
  /\ UNCHANGED <<m, result, data, drain, client, loop_running, outbox, attempts, stdout,
                 trace, written, returned, polls, exc, args>>

NextPack == Call_pack_short_frame

SpecPack == InitPack /\ [][NextPack]_vars

(* ---------------------------------------------------------------- claims *)
Last(s) == s[Len(s)]
Returned(b) == result.type = "bool" /\ Val(result) = b
Entered == \E i \in 1..Len(trace) : trace[i] = "enter"

\* C1: on a fresh SimpleMaster, a command 0 whose drain yields no message returns
\* False and leaves manufacturer_id, manufacturer_device_type, device_id and
\* long_address None.
C1_NoResponseNoIdentity ==
  (result.type = "bool" /\ trace = <<"command 0">> /\ drain = <<>>)
    => /\ Val(result) = FALSE
       /\ IsNone(m.manufacturer_id)
       /\ IsNone(m.manufacturer_device_type)
       /\ IsNone(m.device_id)
       /\ IsNone(m.long_address)

C1_Witness == pc = "exited" /\ drain = <<>> /\ result.type = "bool"

\* C2: when run_command_0 returned False the process exits: the MQTT Client is never
\* constructed, command 1 and command 3 are never sent and nothing is published.
C2_FailureExitsBeforeMqtt ==
  /\ [](Returned(FALSE) =>
          /\ pc \in {"if not result", "exited"}
          /\ client = "none"
          /\ ~loop_running
          /\ attempts = 0
          /\ trace = <<"command 0">>
          /\ Len(written) = 1
          /\ written[1].packer = "pack_short_frame")
  /\ [][(pc = "if not result" /\ Returned(FALSE)) => pc' = "exited"]_vars

C2_Witness == pc = "exited" /\ Returned(FALSE)

\* C3: the events of a run are a prefix of: command 0, command 1, scope entry, then
\* (command 3, publish press, publish temp) repeated; command 1 runs only after
\* command 0 succeeded, and every publish happens with the publisher scope open.
Canon(n) ==
  <<"command 0", "command 1", "enter">>
    \o [i \in 1..(3 * n) |-> IF i % 3 = 1 THEN "command 3"
                              ELSE IF i % 3 = 2 THEN "press" ELSE "temp"]

C3_OrderOfEvents ==
  /\ [](/\ trace = SubSeq(Canon(polls), 1, Len(trace))
        /\ (Len(trace) >= 2 => Returned(TRUE)))
  /\ [][(trace' # trace /\ Last(trace') \in {"press", "temp"})
          => (client = "connected" /\ loop_running /\ loop_running')]_vars
  /\ [][(trace' # trace) => trace' = Append(trace, Last(trace'))]_vars

C3_Witness == Len(trace) = 9 /\ Last(trace) = "temp" /\ pc = "run_command_3"

\* C4: a command 3 whose drain yields at least one message returns the last message's
\* primary variable and that message's secondary variable times 1,000,000, and run
\* publishes exactly these two values to press and temp.
FromLast(r, msgs) ==
  /\ msgs # <<>>
  /\ r.primary = PyFloat(msgs[Len(msgs)].primary_variable)
  /\ r.secondary.type = "float"
  /\ Val(r.secondary)[1] = msgs[Len(msgs)].secondary_variable[1]
  /\ Val(r.secondary)[2] = msgs[Len(msgs)].secondary_variable[2] + 6

C4_LastMessageWins ==
  /\ \A x \in returned : FromLast(x[2], x[1])
  /\ pc = "publish press" => FromLast(data, drain)
  /\ pc = "publish temp" =>
       /\ FromLast(data, drain)
       /\ outbox.topic = "press"
       /\ outbox.payload = data.primary
  /\ (pc = "run_command_3" /\ attempts > 0) =>
       /\ FromLast(data, drain)
       /\ outbox.topic = "temp"
       /\ outbox.payload = data.secondary

C4_Witness ==
  /\ pc = "run_command_3"
  /\ attempts = 2
  /\ Len(drain) = 2
  /\ drain[1] # drain[2]
  /\ outbox.payload = PyFloat(<<2, 3>>)

\* C5: for an address in 0..63, a one-byte command id, any preamble length and a data
\* of at most 255 bytes or none, the frame is preamble_len bytes 0xFF, 0x02,
\* 128 | address, the command id, the byte count, the data and a checksum that is the
\* XOR of the bytes from the start byte through the data; its length is
\* preamble_len + 4 + (1 if no data else 1 + len(data)).
PackInDomain ==
  /\ (IF args[1].type = "bytes" THEN from_bytes(args[1].v) ELSE Val(args[1])) \in 0..63
  /\ (args[2].type = "int" => Val(args[2]) \in 0..255)
  /\ (args[2].type = "bytes" => Len(args[2].v) = 1)
  /\ (args[4].type = "bytes" => Len(args[4].v) <= 255)

C5_ShortFrameLayout ==
  (pc = "packed" /\ PackInDomain) =>
    LET address == IF args[1].type = "bytes" THEN from_bytes(args[1].v) ELSE Val(args[1])
        command_id == IF args[2].type = "bytes" THEN args[2].v[1] ELSE Val(args[2])
        n == args[3]
        payload == IF IsNone(args[4]) THEN <<>> ELSE args[4].v
        f == frame.v
    IN /\ frame.type = "bytes"
       /\ Len(f) = n + 4 + (IF IsNone(args[4]) THEN 1 ELSE 1 + Len(payload))
       /\ \A i \in 1..n : f[i] = 255
       /\ f[n + 1] = 2
       /\ f[n + 2] = 128 + address
       /\ f[n + 3] = command_id
       /\ f[n + 4] = Len(payload)
       /\ SubSeq(f, n + 5, Len(f) - 1) = payload
       /\ f[Len(f)] = calculate_checksum(SubSeq(f, n + 1, Len(f) - 1))

C5_Witness ==
  /\ pc = "packed"
  /\ PackInDomain
  /\ args[3] = 1
  /\ args[1].type = "bytes"
  /\ args[4].type = "bytes"
  /\ Len(args[4].v) = 255
  /\ frame.type = "bytes"

\* C6: once the publisher scope has been entered, the network loop is stopped when an
\* exception of run_command_3 or of publish has taken control out of the scope, and
\* the loop is running during every publish made inside the scope.
C6_LoopStoppedOnExit ==
  /\ []((pc = "raised" /\ Entered) => ~loop_running)
  /\ []((pc \in {"run_command_3", "publish press", "publish temp"}) => loop_running)
  /\ [][(attempts' # attempts) => (loop_running /\ loop_running')]_vars

C6_Witness ==
  /\ pc = "raised"
  /\ Entered
  /\ exc = "ValueError"
  /\ attempts = 2

\* C7: a publish whose status is not 0 only prints the failure: one call of the
\* client's publish, no exception, and run goes on, from press to temp with the same
\* reading and from temp to the next command 3.
C7_FailedPublishGoesOn ==
  [][(pc \in {"publish press", "publish temp"} /\ pc' # pc)
       => /\ attempts' = attempts + 1
          /\ (outbox'.status # 0 =>
                /\ exc' = ""
                /\ stdout' = "Failed to send"
                /\ data' = data
                /\ loop_running'
                /\ pc' = IF pc = "publish press" THEN "publish temp" ELSE "run_command_3"
                /\ outbox'.payload = IF pc = "publish press" THEN data.primary
                                     ELSE data.secondary)]_vars

C7_Witness ==
  /\ pc = "publish temp"
  /\ outbox.topic = "press"
  /\ outbox.status # 0
  /\ stdout = "Failed to send"

\* C8: two calls of run_command_3 whose drains yielded the same messages returned the
\* same reading, whatever was called in between.
C8_SameBatchSameReading ==
  \A x \in returned : \A y \in returned : x[1] = y[1] => x[2] = y[2]

C8_Witness ==
  /\ polls = 3
  /\ pc = "publish press"
  /\ Cardinality(returned) = 1

\* C9: a command 3 whose drain yields no message returns a reading whose primary and
\* secondary are None, which run then hands to publish.
C9_EmptyDrainReturnsNone ==
  (Len(trace) > 0 /\ Last(trace) = "command 3" /\ drain = <<>> /\ exc # "SerialException")
    => /\ exc = ""
       /\ pc = "publish press"
       /\ IsNone(data.primary)
       /\ IsNone(data.secondary)

\* C10: once run_command_0 has returned True the identity fields and the long address
\* are set and no later command changes them; command 1 and every command 3 are
\* addressed with that long address.
C10_IdentityFixed ==
  /\ [](Returned(TRUE) =>
          /\ m.manufacturer_id.type = "int"
          /\ m.manufacturer_device_type.type = "int"
          /\ m.device_id.type = "bytes"
          /\ m.long_address.type = "bytes"
          /\ \A i \in 2..Len(written) :
               /\ written[i].packer = "pack_command"
               /\ written[i].address = m.long_address)
  /\ [](\A i \in 1..Len(written) :
          written[i].packer = "pack_command" => written[i].address.type = "bytes")
  /\ [][Returned(TRUE) => m' = m]_vars

C10_Witness ==
  /\ Returned(TRUE)
  /\ polls = 2
  /\ Len(written) = 4
  /\ written[4].command_id = 3
  /\ written[2].command_id = 1
  /\ drain = <<>>

====
